---- MODULE Spec2Model ----
(***************************************************************************)
(* A model of main.py: the FastAPI application of the repository.  Every   *)
(* client sends a request to one of the declared routes; the framework     *)
(* binds and checks the declared parameters, and only then calls the path  *)
(* operation function, whose return value (or exception) becomes the       *)
(* response.                                                               *)
(*                                                                         *)
(* JSON objects are records, a missing key is a key outside DOMAIN.  An    *)
(* Optional value is None (<<>>) or Some(v) (<<v>>).  Strings are strings; *)
(* a float with two decimals (Size(kb)) is the integer of its hundredths.  *)
(***************************************************************************)
EXTENDS Integers, Sequences, FiniteSets, TLC

VARIABLES persons, pc, req, resp, ran

vars == <<persons, pc, req, resp, ran>>

-----------------------------------------------------------------------------
(* Bounds of the model *)

NumClients == 2
AgeMargin == 2
MaxPersonId == 7
MaxFileSize == 2050

-----------------------------------------------------------------------------
(* Constants of the program *)

MinNameLen == 1
MinLocationLen == 1
MinContactNameLen == 1
MinQueryNameLen == 1
MaxQueryNameLen == 50
MinPersonId == 0
MinAge == 0
MaxNameLen == 50
MaxCityLen == 58
MaxStateLen == 50
MaxCountryLen == 21
MaxAge == 115
MinPasswordLen == 8
MaxUsernameLen == 20
MaxContactNameLen == 20
MinMessageLen == 20
BytesPerKb == 1024

HTTP_200_OK == 200
HTTP_201_CREATED == 201
HTTP_202_ACCEPTED == 202
HTTP_404_NOT_FOUND == 404
HTTP_422_UNPROCESSABLE_ENTITY == 422
HTTP_500_INTERNAL_SERVER_ERROR == 500

HairColor == {"black", "blonde", "brown", "red", "white"}

PersonBaseFields == {"first_name", "last_name", "age", "hair_color", "is_married"}
PersonFields == PersonBaseFields \cup {"password"}
LocationFields == {"city", "state", "country"}

-----------------------------------------------------------------------------
(* Values *)

None == <<>>
Some(v) == <<v>>

RECURSIVE Rep(_, _)
Rep(s, n) == IF n <= 0 THEN "" ELSE s \o Rep(s, n - 1)

Drop(r, K) == [k \in DOMAIN r \ K |-> r[k]]

Project(r, K) == [k \in DOMAIN r \cap K |-> r[k]]

(* dict.update: the keys of b win *)
DictUpdate(a, b) == [k \in DOMAIN a \cup DOMAIN b |-> IF k \in DOMAIN b THEN b[k] ELSE a[k]]

-----------------------------------------------------------------------------
(* Field constraints: each operator gives the set of fields of a raw JSON  *)
(* object that are missing or violate their declared constraint.           *)

Missing(body, fields) == {f \in fields : f \notin DOMAIN body}

(* Field(..., min_length=lo, max_length=hi) of a str *)
StrBad(body, f, lo, hi) ==
    IF f \in DOMAIN body /\ (Len(body[f]) < lo \/ Len(body[f]) > hi) THEN {f} ELSE {}

(* Field(..., min_length=lo) of a str *)
StrShort(body, f, lo) ==
    IF f \in DOMAIN body /\ Len(body[f]) < lo THEN {f} ELSE {}

AgeOk_GeZero(a) == a >= MinAge /\ a <= MaxAge

(* age: int = Field(..., gt=0, le=115) *)
AgeOk(a) == a > MinAge /\ a <= MaxAge

(* hair_color: Optional[HairColor] *)
HairColorOk(h) == h = None \/ h[1] \in HairColor

LocationErrors(body) ==
    Missing(body, LocationFields)
    \cup StrBad(body, "city", MinLocationLen, MaxCityLen)
    \cup StrBad(body, "state", MinLocationLen, MaxStateLen)
    \cup StrBad(body, "country", MinLocationLen, MaxCountryLen)

PersonBaseErrors(body) ==
    Missing(body, {"first_name", "last_name", "age"})
    \cup StrBad(body, "first_name", MinNameLen, MaxNameLen)
    \cup StrBad(body, "last_name", MinNameLen, MaxNameLen)
    \cup (IF "age" \in DOMAIN body /\ ~AgeOk(body.age) THEN {"age"} ELSE {})
    \cup (IF "hair_color" \in DOMAIN body /\ ~HairColorOk(body.hair_color)
          THEN {"hair_color"} ELSE {})

PersonErrors(body) ==
    PersonBaseErrors(body)
    \cup Missing(body, {"password"})
    \cup StrShort(body, "password", MinPasswordLen)

(* The model object built from a valid raw object: the optional fields     *)
(* that the object does not carry take their default, None.                *)
OptionalDefaults == [hair_color |-> None, is_married |-> None]

PersonBase(body) == DictUpdate(OptionalDefaults, Project(body, PersonBaseFields))

Person(body) == DictUpdate(OptionalDefaults, Project(body, PersonFields))

Location(body) == Project(body, LocationFields)

PersonOut_WholePerson(person) == person

(* response_model=PersonOut: the returned object is serialised with the    *)
(* fields PersonOut declares, which are those of PersonBase.               *)
PersonOut(person) == Project(person, PersonBaseFields)

LoginOutErrors_AtLimit(username) ==
    IF Len(username) >= MaxUsernameLen THEN {"username"} ELSE {}

(* LoginOut(username=username): construction checks username's max_length  *)
LoginOutErrors(username) ==
    IF Len(username) > MaxUsernameLen THEN {"username"} ELSE {}

LoginOut(username) == [username |-> username, message |-> "Login Successful"]

PathIdErrors_GeZero(seg) ==
    IF seg.isInt /\ seg.val >= MinPersonId THEN {} ELSE {"person_id"}

(* person_id: int = Path(..., gt=0): the path segment must parse as an int *)
PathIdErrors(seg) ==
    IF seg.isInt /\ seg.val > MinPersonId THEN {} ELSE {"person_id"}

(* email: EmailStr: one "@", a local part before it, and after it a domain  *)
(* with a dot inside.  An address is the sequence of its characters.       *)
EmailOk(e) ==
    \E at \in 1..Len(e) :
        /\ e[at] = "@"
        /\ \A i \in 1..Len(e) : e[i] = "@" => i = at
        /\ at > 1
        /\ \E dot \in (at + 2)..(Len(e) - 1) : e[dot] = "."

-----------------------------------------------------------------------------
(* Requests *)

ExamplePerson ==
    [first_name |-> "Juan", last_name |-> "Di Pasquo", age |-> 21, password |-> "hunter22"]

ExampleLocation ==
    [city |-> "La Plata", state |-> "Buenos Aires", country |-> "Argentina"]

(* a JSON object that leaves out the optional keys it has no value for *)
OmitNone(r) == Drop(r, {k \in {"hair_color", "is_married"} : r[k] = None})

FirstNames == {"", "Juan", Rep("a", MaxNameLen), Rep("a", MaxNameLen + 1)}
LastNames == {"", "Di Pasquo", Rep("b", MaxNameLen), Rep("b", MaxNameLen + 1)}
BoundaryAges == {MinAge, MinAge + 1, 21, MaxAge, MaxAge + 1}
AllAges == (MinAge - AgeMargin)..(MaxAge + AgeMargin)
HairColors == {None} \cup {Some(h) : h \in HairColor \cup {"purple"}}
Marrieds == {None, Some(TRUE), Some(FALSE)}
Passwords == {"1234567", "hunter22", "s3cr3tpw"}

PersonBodies ==
    {OmitNone([first_name |-> fn, last_name |-> ln, age |-> a,
               hair_color |-> hc, is_married |-> im, password |-> pw]) :
        fn \in FirstNames, ln \in LastNames, a \in BoundaryAges,
        hc \in HairColors, im \in Marrieds, pw \in Passwords}
    \cup {[ExamplePerson EXCEPT !.age = a] : a \in AllAges}
    \cup {Drop(ExamplePerson, {f}) : f \in DOMAIN ExamplePerson}
    \cup {[first_name |-> "Juan", last_name |-> "Di Pasquo", age |-> 21,
           hair_color |-> None, is_married |-> None, password |-> "hunter22"]}

UpdatePersonBodies ==
    {OmitNone([first_name |-> fn, last_name |-> "Di Pasquo", age |-> a,
               hair_color |-> hc, is_married |-> im, password |-> pw]) :
        fn \in {"Juan", Rep("a", MaxNameLen + 1)}, a \in {MinAge, 21},
        hc \in {None, Some("brown")}, im \in {None, Some(FALSE)},
        pw \in {"1234567", "hunter22"}}
    \cup {Drop(ExamplePerson, {"password"})}

LocationBodies ==
    {[city |-> ci, state |-> st, country |-> co] :
        ci \in {"", "La Plata", Rep("c", MaxCityLen), Rep("c", MaxCityLen + 1)},
        st \in {"Buenos Aires", Rep("s", MaxStateLen + 1)},
        co \in {"Argentina", Rep("k", MaxCountryLen + 1)}}
    \cup {Drop(ExampleLocation, {"country"})}

IntSeg(n) == [isInt |-> TRUE, val |-> n]
PathSegs == {IntSeg(n) : n \in (MinPersonId - 1)..MaxPersonId} \cup {[isInt |-> FALSE, val |-> 0]}

QueryStrings ==
    {[name |-> n, age |-> a] :
        n \in {"", "Rocio", Rep("r", MaxQueryNameLen), Rep("r", MaxQueryNameLen + 1)},
        a \in {-5, 25}}
    \cup {[age |-> 25], [name |-> "Rocio"]}

LoginForms ==
    {[username |-> u, password |-> pw] :
        u \in {"Miguel2021", Rep("u", MaxUsernameLen), Rep("u", MaxUsernameLen + 1)},
        pw \in {"pw"} \cup Passwords}
    \cup {[username |-> "Miguel2021"], [password |-> "hunter22"]}

Emails ==
    {<<"j", "@", "x", ".", "y">>, <<"j", "x", ".", "y">>, <<"@", "x", ".", "y">>,
     <<"j", "@", "x", "y", ".">>}

ContactForms ==
    {[first_name |-> fn, last_name |-> "Di Pasquo", email |-> e, message |-> m] :
        fn \in {"", "Juan", Rep("a", MaxContactNameLen + 1)}, e \in Emails,
        m \in {Rep("m", MinMessageLen - 1), Rep("m", MinMessageLen)}}
    \cup {[first_name |-> "Juan", last_name |-> "Di Pasquo", message |-> Rep("m", MinMessageLen)]}

Uploads ==
    {[image |-> [filename |-> "cat.png", content_type |-> ct, size |-> n]] :
        ct \in {"image/png", "text/plain"}, n \in 0..MaxFileSize}
    \cup {[other |-> "x"]}

Requests ==
    {[route |-> "home"]}
    \cup {[route |-> "create_person", person |-> p] : p \in PersonBodies}
    \cup {[route |-> "show_person", query |-> q] : q \in QueryStrings}
    \cup {[route |-> "show_person_by_id", person_id |-> s] : s \in PathSegs}
    \cup {[route |-> "update_person", person_id |-> s, person |-> p, Location |-> l] :
            s \in PathSegs, p \in UpdatePersonBodies, l \in LocationBodies}
    \cup {[route |-> "login", form |-> f] : f \in LoginForms}
    \cup {[route |-> "contact", form |-> f, user_agent |-> ua, ads |-> ad] :
            f \in ContactForms, ua \in {None, Some("Mozilla/5.0")}, ad \in {None, Some("1")}}
    \cup {[route |-> "post_image", files |-> u] : u \in Uploads}

(* the requests of the clients that run concurrently *)
CoreRequests ==
    {[route |-> "home"]}
    \cup {[route |-> "create_person", person |-> p] :
            p \in {ExamplePerson, [ExamplePerson EXCEPT !.age = MinAge]}}
    \cup {[route |-> "show_person", query |-> q] : q \in {[name |-> "Rocio", age |-> 25], [name |-> "Rocio"]}}
    \cup {[route |-> "show_person_by_id", person_id |-> IntSeg(n)] : n \in {MinPersonId, 1, 5, 6}}
    \cup {[route |-> "update_person", person_id |-> IntSeg(n), person |-> ExamplePerson,
           Location |-> ExampleLocation] : n \in {MinPersonId, 1, 6}}
    \cup {[route |-> "login", form |-> [username |-> u, password |-> "hunter22"]] :
            u \in {"Miguel2021", Rep("u", MaxUsernameLen + 1)}}
    \cup {[route |-> "contact", form |-> f, user_agent |-> Some("Mozilla/5.0"), ads |-> None] :
            f \in {[first_name |-> "Juan", last_name |-> "Di Pasquo",
                    email |-> e, message |-> Rep("m", MinMessageLen)] :
                        e \in {<<"j", "@", "x", ".", "y">>, <<"j", "x", ".", "y">>}}}
    \cup {[route |-> "post_image", files |-> u] :
            u \in {[image |-> [filename |-> "cat.png", content_type |-> "image/png", size |-> 6]],
                   [other |-> "x"]}}

-----------------------------------------------------------------------------
(* Binding: the declared parameters of each route, checked by the          *)
(* framework before the path operation function is called.                 *)

BindErrors(r) ==
    CASE r.route = "home" -> {}
      [] r.route = "create_person" -> PersonErrors(r.person)
      [] r.route = "show_person" ->
            Missing(r.query, {"age"})
            \cup StrBad(r.query, "name", MinQueryNameLen, MaxQueryNameLen)
      [] r.route = "show_person_by_id" -> PathIdErrors(r.person_id)
      [] r.route = "update_person" ->
            PathIdErrors(r.person_id) \cup PersonErrors(r.person)
            \cup LocationErrors(r.Location)
      [] r.route = "login" -> Missing(r.form, {"username", "password"})
      [] r.route = "contact" ->
            Missing(r.form, {"first_name", "last_name", "email", "message"})
            \cup StrBad(r.form, "first_name", MinContactNameLen, MaxContactNameLen)
            \cup StrBad(r.form, "last_name", MinContactNameLen, MaxContactNameLen)
            \cup (IF "email" \in DOMAIN r.form /\ ~EmailOk(r.form.email)
                  THEN {"email"} ELSE {})
            \cup StrShort(r.form, "message", MinMessageLen)
      [] r.route = "post_image" -> Missing(r.files, {"image"})

Response(status, body) == [status |-> status, body |-> body]

ValidationFailure(errors) ==
    Response(HTTP_422_UNPROCESSABLE_ENTITY, [detail |-> errors])

(* an exception that is no HTTPException leaves the function *)
ServerError == Response(HTTP_500_INTERNAL_SERVER_ERROR, "Internal Server Error")

-----------------------------------------------------------------------------
(* The path operation functions, each with the status and the response     *)
(* model of its decorator.                                                 *)

home == Response(HTTP_200_OK, [Hello |-> "World"])

create_person(person) == Response(HTTP_201_CREATED, PersonOut(person))

(* {name: age}; a None key is written null *)
show_person(name, age) ==
    Response(HTTP_200_OK, (IF name = None THEN "null" ELSE name[1]) :> age)

show_person_by_id_SkipsFirst(person_id, ps) ==
    IF \A i \in 2..Len(ps) : ps[i] # person_id
    THEN Response(HTTP_404_NOT_FOUND, [detail |-> "This person does not exists"])
    ELSE Response(HTTP_202_ACCEPTED, ToString(person_id) :> "It exists!")

show_person_by_id(person_id, ps) ==
    IF \A i \in 1..Len(ps) : ps[i] # person_id
    THEN Response(HTTP_404_NOT_FOUND, [detail |-> "This person does not exists"])
    ELSE Response(HTTP_202_ACCEPTED, ToString(person_id) :> "It exists!")

update_person_NoMerge(person_id, person, location) ==
    Response(HTTP_201_CREATED, person)

update_person(person_id, person, location) ==
    Response(HTTP_201_CREATED, DictUpdate(person, location))

login(username, password) ==
    IF LoginOutErrors(username) # {}
    THEN ServerError
    ELSE Response(HTTP_200_OK, LoginOut(username))

contact(user_agent) == Response(HTTP_200_OK, user_agent)

Round2_Truncates(num, den) == (100 * num) \div den

(* round(x, ndigits=2) of x = num/den, in hundredths: to the nearest, a tie *)
(* to the even one                                                         *)
Round2(num, den) ==
    LET q == (100 * num) \div den
        r == (100 * num) % den
    IN  IF 2 * r < den THEN q
        ELSE IF 2 * r > den THEN q + 1
        ELSE IF q % 2 = 0 THEN q ELSE q + 1

post_image(image) ==
    Response(HTTP_200_OK,
             [k \in {"Filename", "Format", "Size(kb)"} |->
                CASE k = "Filename" -> image.filename
                  [] k = "Format" -> image.content_type
                  [] k = "Size(kb)" -> Round2(image.size, BytesPerKb)])

-----------------------------------------------------------------------------
(* The state machine *)

Clients == 1..NumClients

NoRequest == [route |-> "none"]
NoResponse == Response(0, None)

Init ==
    /\ persons = <<1, 2, 3, 4, 5>>
    /\ pc = [c \in Clients |-> "idle"]
    /\ req = [c \in Clients |-> NoRequest]
    /\ resp = [c \in Clients |-> NoResponse]
    /\ ran = [c \in Clients |-> "none"]

Receive(c, R) ==
    /\ pc[c] = "idle"
    /\ pc' = [pc EXCEPT ![c] = "received"]
    /\ \E r \in R : req' = [req EXCEPT ![c] = r]
    /\ UNCHANGED <<persons, resp, ran>>

(* a failed binding answers at once; the function is not called *)
Bind(c) ==
    /\ pc[c] = "received"
    /\ IF BindErrors(req[c]) = {}
       THEN /\ pc' = [pc EXCEPT ![c] = "bound"]
            /\ UNCHANGED resp
       ELSE /\ pc' = [pc EXCEPT ![c] = "responded"]
            /\ resp' = [resp EXCEPT ![c] = ValidationFailure(BindErrors(req[c]))]
    /\ UNCHANGED <<persons, req, ran>>

Call(c, route, result) ==
    /\ pc[c] = "bound"
    /\ req[c].route = route
    /\ pc' = [pc EXCEPT ![c] = "responded"]
    /\ resp' = [resp EXCEPT ![c] = result]
    /\ ran' = [ran EXCEPT ![c] = route]
    /\ UNCHANGED req

Home(c) ==
    /\ Call(c, "home", home)
    /\ UNCHANGED persons

CreatePerson(c) ==
    /\ Call(c, "create_person", create_person(Person(req[c].person)))
    /\ UNCHANGED persons

ShowPerson(c) ==
    /\ Call(c, "show_person",
            show_person(IF "name" \in DOMAIN req[c].query
                        THEN Some(req[c].query.name) ELSE None,
                        req[c].query.age))
    /\ UNCHANGED persons

ShowPersonById_Remembers(c) ==
    /\ Call(c, "show_person_by_id", show_person_by_id(req[c].person_id.val, persons))
    /\ persons' = Append(persons, req[c].person_id.val)

ShowPersonById(c) ==
    /\ Call(c, "show_person_by_id", show_person_by_id(req[c].person_id.val, persons))
    /\ UNCHANGED persons

UpdatePerson(c) ==
    /\ Call(c, "update_person",
            update_person(req[c].person_id.val, Person(req[c].person),
                          Location(req[c].Location)))
    /\ UNCHANGED persons

Login(c) ==
    /\ Call(c, "login", login(req[c].form.username, req[c].form.password))
    /\ UNCHANGED persons

Contact(c) ==
    /\ Call(c, "contact", contact(req[c].user_agent))
    /\ UNCHANGED persons

PostImage(c) ==
    /\ Call(c, "post_image", post_image(req[c].files.image))
    /\ UNCHANGED persons

(* the response is sent and the request's objects are discarded *)
Send(c) ==
    /\ pc[c] = "responded"
    /\ pc' = [pc EXCEPT ![c] = "idle"]
    /\ req' = [req EXCEPT ![c] = NoRequest]
    /\ resp' = [resp EXCEPT ![c] = NoResponse]
    /\ ran' = [ran EXCEPT ![c] = "none"]
    /\ UNCHANGED persons

Serve(c) ==
    \/ Bind(c)
    \/ Home(c)
    \/ CreatePerson(c)
    \/ ShowPerson(c)
    \/ ShowPersonById(c)
    \/ UpdatePerson(c)
    \/ Login(c)
    \/ Contact(c)
    \/ PostImage(c)
    \/ Send(c)

(* one client, every request of the model *)
Next ==
    \/ Receive(1, Requests)
    \/ Serve(1)

Spec == Init /\ [][Next]_vars

(* the clients run concurrently, their steps interleaved *)
NextConcurrent ==
    \E c \in Clients :
        \/ Receive(c, CoreRequests)
        \/ Serve(c)

SpecConcurrent == Init /\ [][NextConcurrent]_vars

-----------------------------------------------------------------------------
(* Properties.  The payload predicates below restate the constraints in    *)
(* the words of the specification, apart from the operators above.         *)

Responded(c, route) == pc[c] = "responded" /\ req[c].route = route

Accepted(c) == pc[c] = "responded" /\ resp[c].status < 400

PositiveId(seg) == seg.isInt /\ seg.val > 0

ValidPersonPayload(p) ==
    /\ {"first_name", "last_name", "age", "password"} \subseteq DOMAIN p
    /\ Len(p.first_name) \in 1..50
    /\ Len(p.last_name) \in 1..50
    /\ p.age \in 1..115
    /\ "hair_color" \in DOMAIN p /\ p.hair_color # <<>> =>
          p.hair_color[1] \in {"black", "blonde", "brown", "red", "white"}
    /\ Len(p.password) >= 8

ValidLocationPayload(l) ==
    /\ {"city", "state", "country"} \subseteq DOMAIN l
    /\ Len(l.city) \in 1..58
    /\ Len(l.state) \in 1..50
    /\ Len(l.country) \in 1..21

Submitted(p, k) == IF k \in DOMAIN p THEN p[k] ELSE <<>>

DeclaredConstraints(r) ==
    CASE r.route = "home" -> TRUE
      [] r.route = "create_person" -> ValidPersonPayload(r.person)
      [] r.route = "show_person" ->
            /\ "age" \in DOMAIN r.query
            /\ "name" \in DOMAIN r.query => Len(r.query.name) \in 1..50
      [] r.route = "show_person_by_id" -> PositiveId(r.person_id)
      [] r.route = "update_person" ->
            /\ PositiveId(r.person_id)
            /\ ValidPersonPayload(r.person)
            /\ ValidLocationPayload(r.Location)
      [] r.route = "login" -> {"username", "password"} \subseteq DOMAIN r.form
      [] r.route = "contact" ->
            /\ {"first_name", "last_name", "email", "message"} \subseteq DOMAIN r.form
            /\ Len(r.form.first_name) \in 1..20
            /\ Len(r.form.last_name) \in 1..20
            /\ EmailOk(r.form.email)
            /\ Len(r.form.message) >= 20
      [] r.route = "post_image" -> "image" \in DOMAIN r.files

SuccessStatus(route) ==
    CASE route \in {"create_person", "update_person"} -> 201
      [] route = "show_person_by_id" -> 202
      [] OTHER -> 200

(* C1: no accepted request to POST /person/new, PUT /person/{person_id} or *)
(* POST /login is answered with a body that has a password field or that  *)
(* carries the submitted password as the value of a text field.            *)
C1_PasswordNeverEchoed ==
    \A c \in Clients :
        /\ Accepted(c) /\ req[c].route \in {"create_person", "update_person"} =>
              /\ "password" \notin DOMAIN resp[c].body
              /\ \A k \in DOMAIN resp[c].body \cap {"first_name", "last_name", "city", "state", "country"} :
                    resp[c].body[k] # req[c].person.password
        /\ Accepted(c) /\ req[c].route = "login" =>
              /\ "password" \notin DOMAIN resp[c].body
              /\ \A k \in DOMAIN resp[c].body : resp[c].body[k] # req[c].form.password

(* C2: a valid Person payload posted to /person/new is answered 201 with   *)
(* exactly the five keys first_name, last_name, age, hair_color and        *)
(* is_married, each with the submitted value, null for an absent optional  *)
(* field; the body has no password.                                        *)
C2_CreatePersonEchoes ==
    \A c \in Clients :
        Responded(c, "create_person") /\ ValidPersonPayload(req[c].person) =>
            /\ resp[c].status = 201
            /\ DOMAIN resp[c].body = {"first_name", "last_name", "age", "hair_color", "is_married"}
            /\ \A k \in DOMAIN resp[c].body : resp[c].body[k] = Submitted(req[c].person, k)

C2_Witness ==
    /\ Responded(1, "create_person")
    /\ ValidPersonPayload(req[1].person)
    /\ "is_married" \notin DOMAIN req[1].person
    /\ "hair_color" \in DOMAIN req[1].person
    /\ req[1].person.hair_color = <<"red">>
    /\ resp[1].status = 201

(* C3: GET /person/detail/{person_id} with person_id in 1..5 is answered   *)
(* 202 with the single entry {person_id: "It exists!"}; with any other     *)
(* positive person_id it is answered 404 with the detail 'This person does *)
(* not exists'.                                                            *)
C3_DetailById ==
    \A c \in Clients :
        Responded(c, "show_person_by_id") /\ PositiveId(req[c].person_id) =>
            IF req[c].person_id.val \in 1..5
            THEN /\ resp[c].status = 202
                 /\ DOMAIN resp[c].body = {ToString(req[c].person_id.val)}
                 /\ resp[c].body[ToString(req[c].person_id.val)] = "It exists!"
            ELSE /\ resp[c].status = 404
                 /\ resp[c].body = [detail |-> "This person does not exists"]

C3_Witness ==
    /\ Responded(1, "show_person_by_id")
    /\ req[1].person_id = [isInt |-> TRUE, val |-> 6]
    /\ resp[1].status = 404

(* C4: every response is the route's success status, a 422 for an input    *)
(* that misses a declared constraint, or the 404 of the detail-by-id       *)
(* route; a request that meets the declared constraints of its route ends  *)
(* in no other failure.                                                    *)
C4_OnlyTwoErrorKinds ==
    \A c \in Clients :
        pc[c] = "responded" =>
            \/ resp[c].status = SuccessStatus(req[c].route)
            \/ resp[c].status = 422 /\ ~DeclaredConstraints(req[c])
            \/ resp[c].status = 404 /\ req[c].route = "show_person_by_id"

(* C5: with the other fields valid, a Person with 0 < age <= 115 is        *)
(* constructed and one with age <= 0 or age > 115 fails validation on age. *)
C5_AgeBounds ==
    \A c \in Clients :
        /\ Responded(c, "create_person")
        /\ "age" \in DOMAIN req[c].person
        /\ ValidPersonPayload([req[c].person EXCEPT !.age = 21])
        => IF 0 < req[c].person.age /\ req[c].person.age <= 115
           THEN resp[c].status = 201 /\ resp[c].body.age = req[c].person.age
           ELSE resp[c].status = 422 /\ resp[c].body.detail = {"age"}

C5_Witness ==
    /\ Responded(1, "create_person")
    /\ "age" \in DOMAIN req[1].person
    /\ ValidPersonPayload([req[1].person EXCEPT !.age = 21])
    /\ req[1].person.age = 116
    /\ resp[1].status = 422

(* C6: PUT /person/{person_id} with a positive person_id, a valid Person   *)
(* and a valid Location is answered 201 with one mapping that holds every  *)
(* field of the person and of the location with the submitted values,      *)
(* whatever person_id is; it is never answered 404.                        *)
C6_UpdateMerges ==
    \A c \in Clients :
        /\ Responded(c, "update_person")
        /\ PositiveId(req[c].person_id)
        /\ ValidPersonPayload(req[c].person)
        /\ ValidLocationPayload(req[c].Location)
        => /\ resp[c].status = 201
           /\ DOMAIN resp[c].body =
                {"first_name", "last_name", "age", "hair_color", "is_married", "password",
                 "city", "state", "country"}
           /\ \A k \in {"first_name", "last_name", "age", "hair_color", "is_married", "password"} :
                 resp[c].body[k] = Submitted(req[c].person, k)
           /\ \A k \in {"city", "state", "country"} : resp[c].body[k] = req[c].Location[k]

C6_Witness ==
    /\ Responded(1, "update_person")
    /\ req[1].person_id = [isInt |-> TRUE, val |-> 6]
    /\ ValidPersonPayload(req[1].person)
    /\ ValidLocationPayload(req[1].Location)
    /\ Len(req[1].Location.city) = 58
    /\ resp[1].status = 201

C9_ImageSize ==
    \A c \in Clients :
        Responded(c, "post_image") /\ "image" \in DOMAIN req[c].files =>
            LET n == req[c].files.image.size
                size == resp[c].body["Size(kb)"]
            IN  /\ DOMAIN resp[c].body = {"Filename", "Format", "Size(kb)"}
                /\ resp[c].body["Filename"] = req[c].files.image.filename
                /\ resp[c].body["Format"] = req[c].files.image.content_type
                /\ 2 * (1024 * size - 100 * n) <= 1024
                /\ 2 * (100 * n - 1024 * size) <= 1024
                /\ n = 2048 => size = 200
                /\ n = 0 => size = 0

C9_Witness ==
    /\ Responded(1, "post_image")
    /\ "image" \in DOMAIN req[1].files
    /\ req[1].files.image.size = 2048
    /\ resp[1].body["Size(kb)"] = 200

(* C10: a path operation function has run, or is about to run, only for a  *)
(* request that meets every declared constraint of its route; a person_id  *)
(* that is not a positive integer is answered 422 on the detail-by-id      *)
(* route and on the update route, without the function having run.         *)
C10_ConstraintsBeforeHandler ==
    \A c \in Clients :
        /\ pc[c] = "bound" \/ ran[c] # "none" => DeclaredConstraints(req[c])
        /\ /\ pc[c] = "responded"
           /\ req[c].route \in {"show_person_by_id", "update_person"}
           /\ ~PositiveId(req[c].person_id)
           => ran[c] = "none" /\ resp[c].status = 422

C10_Witness ==
    /\ Responded(1, "update_person")
    /\ req[1].person_id = [isInt |-> TRUE, val |-> 0]
    /\ ValidPersonPayload(req[1].person)
    /\ ValidLocationPayload(req[1].Location)
    /\ resp[1].status = 422

====
